---------------------------- MODULE Spec2Model ----------------------------
(***************************************************************************)
(* Model of the two utility scripts of the VoiceInput repository:          *)
(*                                                                         *)
(*   src/split.py          the file splitter (specification Spec)          *)
(*   src/generate_icon.py  the icon generator (specification SpecIcon)     *)
(*                                                                         *)
(* Text is modelled as a sequence of lines; a line is a record             *)
(* [text, nl] where nl says whether the line ends with "\n".  Only the     *)
(* last line of a text can be unterminated, as in a Python str.            *)
(***************************************************************************)
EXTENDS Integers, Sequences, FiniteSets, TLC

VARIABLES
    pc,             \* split.py: position of the running script
    settings_view,  \* split.py: content of the file at settings_view_path
    lines,          \* split.py: the buffer `lines` (line 7)
    views,          \* split.py: the files of views_dir, by filename
    next_call,      \* split.py: index of the next write_view call (lines 21-27)
    run,            \* split.py: how many times the script was started
    start_view,     \* history: settings_view when the current run started
    prev_views,     \* history: views when the previous run ended
    prev_len,       \* history: line count of settings_view when the previous run started
    ipc,            \* generate_icon.py: "idle", or "returned" after a call
    call,           \* generate_icon.py: the function called and its arguments
    image,          \* generate_icon.py: the Image a gradient builder returned
    surface,        \* generate_icon.py: the draw calls received by the Draw surface
    files,          \* generate_icon.py: the files saved, in order
    error           \* generate_icon.py: the exception that ended the call, "" for none

splitVars == <<pc, settings_view, lines, views, next_call, run,
               start_view, prev_views, prev_len>>

iconVars == <<ipc, call, image, surface, files, error>>

vars == <<splitVars, iconVars>>

----------------------------------------------------------------------------
(* Bounds *)

MaxLines == 1200
MaxRuns == 2

----------------------------------------------------------------------------
(* Text *)

Min(a, b) == IF a < b THEN a ELSE b

Line(s) == [text |-> s, nl |-> TRUE]

\* the str "\n"
Newline == <<Line("")>>

\* a + b on two str values: an unterminated last line of a is continued by
\* the first line of b
Cat(a, b) ==
    IF a = <<>> THEN b
    ELSE IF b = <<>> THEN a
    ELSE IF a[Len(a)].nl THEN a \o b
    ELSE SubSeq(a, 1, Len(a) - 1)
         \o <<[text |-> a[Len(a)].text \o b[1].text, nl |-> b[1].nl]>>
         \o SubSeq(b, 2, Len(b))

\* a text as a Python str can hold it: every line but the last is terminated,
\* and an unterminated line is not empty
WellFormed(t) ==
    /\ \A i \in 1..(Len(t) - 1) : t[i].nl
    /\ \A i \in 1..Len(t) : t[i].nl \/ t[i].text # ""

\* f.readlines(): one list element per line of the content, terminators kept
\* (a text is held as its lines, so the list has the lines as its elements)
readlines(content) == content

\* Slice with a range that reaches past the buffer taken as empty
SliceNoClip(buf, start, end) ==
    IF end > Len(buf) THEN <<>> ELSE SubSeq(buf, start + 1, end)

\* buf[start:end] for 0 <= start and 0 <= end: Python clips both to len(buf)
Slice(buf, start, end) ==
    SubSeq(buf, Min(start, Len(buf)) + 1, Min(end, Len(buf)))

\* "".join(ls), element by element
RECURSIVE JoinEach(_)
JoinEach(ls) ==
    IF ls = <<>> THEN <<>> ELSE Cat(<<ls[1]>>, JoinEach(Tail(ls)))

\* "".join(ls) for a list of one-line strs: when every element but the last
\* is terminated, as in a slice of readlines(), the lines are the elements
Join(ls) ==
    IF \A i \in 1..(Len(ls) - 1) : ls[i].nl THEN ls ELSE JoinEach(ls)


----------------------------------------------------------------------------
(* split.py *)

KeepHeadEnd == 54
KeepTailStart == 1081

\* Calls with the second range starting one line late
CallsGap == <<
    [filename |-> "GeneralSettingsView.swift",       start |-> 54,  end |-> 200,  extra_imports |-> <<>>],
    [filename |-> "TranscriptionSettingsView.swift", start |-> 201, end |-> 220,  extra_imports |-> <<>>],
    [filename |-> "ModelSettingsView.swift",         start |-> 220, end |-> 451,  extra_imports |-> <<>>],
    [filename |-> "LLMSettingsView.swift",           start |-> 451, end |-> 830,  extra_imports |-> <<"os">>],
    [filename |-> "HistorySettingsView.swift",       start |-> 830, end |-> 886,  extra_imports |-> <<>>],
    [filename |-> "CustomProviderSheets.swift",      start |-> 886, end |-> 1081, extra_imports |-> <<>>] >>

\* the six write_view calls, in program order
Calls == <<
    [filename |-> "GeneralSettingsView.swift",       start |-> 54,  end |-> 200,  extra_imports |-> <<>>],
    [filename |-> "TranscriptionSettingsView.swift", start |-> 200, end |-> 220,  extra_imports |-> <<>>],
    [filename |-> "ModelSettingsView.swift",         start |-> 220, end |-> 451,  extra_imports |-> <<>>],
    [filename |-> "LLMSettingsView.swift",           start |-> 451, end |-> 830,  extra_imports |-> <<"os">>],
    [filename |-> "HistorySettingsView.swift",       start |-> 830, end |-> 886,  extra_imports |-> <<>>],
    [filename |-> "CustomProviderSheets.swift",      start |-> 886, end |-> 1081, extra_imports |-> <<>>] >>

Filenames == {Calls[k].filename : k \in 1..Len(Calls)}

NoFile == [exists |-> FALSE, content |-> <<>>]
File(content) == [exists |-> TRUE, content |-> content]

\* the loop of write_view over extra_imports
ImportText(extra_imports) ==
    [i \in 1..Len(extra_imports) |-> Line("import " \o extra_imports[i])]

\* ViewText with the extra imports dropped
ViewTextNoImports(buf, start, end, extra_imports) ==
    Cat(<<Line("import SwiftUI")>>, Cat(Newline, Join(Slice(buf, start, end))))

\* the str `content` that write_view(filename, start, end, extra_imports) writes
ViewText(buf, start, end, extra_imports) ==
    Cat(Cat(<<Line("import SwiftUI")>>, ImportText(extra_imports)),
        Cat(Newline, Join(Slice(buf, start, end))))

\* KeepText without the f.write("\n") between head and tail
KeepTextNoSeparator(buf) ==
    Cat(Join(Slice(buf, 0, KeepHeadEnd)), Join(Slice(buf, KeepTailStart, Len(buf))))

\* KeepText writing the whole buffer back
KeepTextAll(buf) == Join(buf)

\* what the three f.write calls put into the reopened original
KeepText(buf) ==
    Cat(Cat(Join(Slice(buf, 0, KeepHeadEnd)), Newline),
        Join(Slice(buf, KeepTailStart, Len(buf))))

\* a file opened with 'w' whose write then fails: truncated, holding nothing
\* or only a leading part of the content
PartialWrites(content) ==
    {SubSeq(content, 1, k) : k \in {0, Len(content) \div 2}}

\* RewriteReady with the overwrite allowed before the last write_view call
RewriteReadyEarly == pc = "views"

\* the overwrite of the original comes after the last write_view call
RewriteReady == pc = "views" /\ next_call > Len(Calls)

history == <<start_view, prev_views, prev_len>>

ReadOriginal ==
    /\ pc = "read"
    /\ lines' = readlines(settings_view)
    /\ pc' = "mkdir"
    /\ UNCHANGED <<settings_view, views, next_call, run, history>>
    /\ UNCHANGED iconVars

ReadFails ==
    /\ pc = "read"
    /\ pc' = "failed"
    /\ UNCHANGED <<settings_view, lines, views, next_call, run, history>>
    /\ UNCHANGED iconVars

MakeDirs ==
    /\ pc = "mkdir"
    /\ pc' = "views"
    /\ UNCHANGED <<settings_view, lines, views, next_call, run, history>>
    /\ UNCHANGED iconVars

MakeDirsFails ==
    /\ pc = "mkdir"
    /\ pc' = "failed"
    /\ UNCHANGED <<settings_view, lines, views, next_call, run, history>>
    /\ UNCHANGED iconVars

WriteView ==
    /\ pc = "views"
    /\ next_call <= Len(Calls)
    /\ LET c == Calls[next_call]
       IN views' = [views EXCEPT ![c.filename] =
                        File(ViewText(lines, c.start, c.end, c.extra_imports))]
    /\ next_call' = next_call + 1
    /\ UNCHANGED <<pc, settings_view, lines, run, history>>
    /\ UNCHANGED iconVars

WriteViewFails ==
    /\ pc = "views"
    /\ next_call <= Len(Calls)
    /\ LET c == Calls[next_call]
           content == ViewText(lines, c.start, c.end, c.extra_imports)
       IN \E f \in {views[c.filename]} \cup {File(p) : p \in PartialWrites(content)} :
              views' = [views EXCEPT ![c.filename] = f]
    /\ pc' = "failed"
    /\ UNCHANGED <<settings_view, lines, next_call, run, history>>
    /\ UNCHANGED iconVars

RewriteOriginal ==
    /\ RewriteReady
    /\ settings_view' = KeepText(lines)
    /\ pc' = "print"
    /\ UNCHANGED <<lines, views, next_call, run, history>>
    /\ UNCHANGED iconVars

RewriteFails ==
    /\ RewriteReady
    /\ \E t \in {settings_view} \cup PartialWrites(KeepText(lines)) :
           settings_view' = t
    /\ pc' = "failed"
    /\ UNCHANGED <<lines, views, next_call, run, history>>
    /\ UNCHANGED iconVars

PrintCompleted ==
    /\ pc = "print"
    /\ pc' = "done"
    /\ UNCHANGED <<settings_view, lines, views, next_call, run, history>>
    /\ UNCHANGED iconVars

\* the script is started again on what the previous run left
RunAgain ==
    /\ pc = "done"
    /\ run < MaxRuns
    /\ run' = run + 1
    /\ pc' = "read"
    /\ lines' = <<>>
    /\ next_call' = 1
    /\ start_view' = settings_view
    /\ prev_views' = views
    /\ prev_len' = Len(start_view)
    /\ UNCHANGED <<settings_view, views>>
    /\ UNCHANGED iconVars

\* the lengths tried for the original: around every cut of the script, and long
Cuts == {Calls[k].start : k \in 1..Len(Calls)} \cup {Calls[k].end : k \in 1..Len(Calls)}
Lens == {0, 1} \cup {c + d : c \in Cuts, d \in {-1, 0, 1}} \cup {MaxLines - 1, MaxLines}

SourceLine(i, pat) == IF pat = "blank" THEN "" ELSE "L" \o ToString(i)

SourceText(n, pat, term) ==
    [p \in 1..n |-> [text |-> SourceLine(p - 1, pat), nl |-> (p < n) \/ term]]

InitialTexts ==
    {SourceText(n, "distinct", term) : n \in Lens, term \in BOOLEAN}
    \cup {SourceText(n, "blank", TRUE) : n \in Lens}

NoImage == [mode |-> "", size |-> <<0, 0>>, px |-> <<>>]

\* generate_icon.py not started
IconIdle ==
    /\ ipc = "idle"
    /\ call = [fn |-> "", args |-> <<>>]
    /\ image = NoImage
    /\ surface = <<>>
    /\ files = <<>>
    /\ error = ""

Init ==
    /\ IconIdle
    /\ pc = "read"
    /\ settings_view \in InitialTexts
    /\ lines = <<>>
    /\ views = [f \in Filenames |-> NoFile]
    /\ next_call = 1
    /\ run = 1
    /\ start_view = settings_view
    /\ prev_views = views
    /\ prev_len = 0

Next ==
    \/ ReadOriginal
    \/ ReadFails
    \/ MakeDirs
    \/ MakeDirsFails
    \/ WriteView
    \/ WriteViewFails
    \/ RewriteOriginal
    \/ RewriteFails
    \/ PrintCompleted
    \/ RunAgain

Spec == Init /\ [][Next]_vars

TypeOK ==
    /\ pc \in {"read", "mkdir", "views", "print", "done", "failed"}
    /\ WellFormed(settings_view)
    /\ WellFormed(lines)
    /\ \A f \in Filenames : WellFormed(views[f].content)
    /\ next_call \in 1..(Len(Calls) + 1)
    /\ run \in 1..MaxRuns


----------------------------------------------------------------------------
(* Properties of split.py *)

Blank == Line("")

Ran == pc \in {"print", "done"}

\* the header a view file starts with: import SwiftUI, the extra imports, a blank line
ExpectedHeader(c) ==
    <<Line("import SwiftUI")>>
    \o [i \in 1..Len(c.extra_imports) |-> Line("import " \o c.extra_imports[i])]
    \o <<Blank>>

\* lines [start, end) of text t, cut at its length
ExpectedBody(t, c) == SubSeq(t, Min(c.start, Len(t)) + 1, Min(c.end, Len(t)))

ExpectedView(t, c) == ExpectedHeader(c) \o ExpectedBody(t, c)

\* the lines of a view file after its header
BodyOf(f, c) == SubSeq(f.content, Len(ExpectedHeader(c)) + 1, Len(f.content))

\* the view files written so far by the current run
Written == {k \in 1..Len(Calls) : k < next_call}

\* C1 as amended: every view file written holds, in order, the line
\* `import SwiftUI`, one `import <name>` line per extra import, ONE BLANK LINE,
\* and then lines [start, end) of the original verbatim; GeneralSettingsView
\* holds original lines 55-200 after `import SwiftUI` and the blank line, and
\* only LLMSettingsView has `import os` as its second line.
C1_ViewContentWithBlankLine ==
    /\ \A k \in Written :
         LET c == Calls[k]
             f == views[c.filename]
         IN /\ f.exists
            /\ f.content = ExpectedView(start_view, c)
            /\ (f.content[2] = Line("import os")) <=> (c.filename = "LLMSettingsView.swift")
    /\ (1 \in Written /\ Len(start_view) >= 200) =>
         views["GeneralSettingsView.swift"].content =
             <<Line("import SwiftUI"), Blank>> \o SubSeq(start_view, 55, 200)

\* C1 as stated: the view file is `import SwiftUI`, the extra imports, and
\* then directly lines [start, end) of the original.
C1_ViewContentAsStated ==
    \A k \in Written :
        LET c == Calls[k]
        IN views[c.filename].content =
               <<Line("import SwiftUI")>>
               \o [i \in 1..Len(c.extra_imports) |-> Line("import " \o c.extra_imports[i])]
               \o ExpectedBody(start_view, c)

C1_Witness ==
    /\ run = 1
    /\ next_call = Len(Calls) + 1
    /\ Len(start_view) = 1200
    /\ Len(views["GeneralSettingsView.swift"].content) = 148
    /\ views["LLMSettingsView.swift"].content[2] = Line("import os")

\* C2: for an original of n >= 1081 lines the rewritten original is original
\* lines [0,54), one blank line, original lines [1081,n): 54 + (n-1081) + 1
\* lines, 174 for n = 1200.
C2_RewrittenOriginal ==
    (Ran /\ Len(start_view) >= 1081) =>
        LET n == Len(start_view)
        IN /\ settings_view = SubSeq(start_view, 1, 54) \o <<Blank>> \o SubSeq(start_view, 1082, n)
           /\ Len(settings_view) = 54 + (n - 1081) + 1
           /\ (n = 1200 => Len(settings_view) = 174)

C2_Witness ==
    /\ pc = "done"
    /\ Len(start_view) = 1200
    /\ Len(settings_view) = 174
    /\ settings_view[55] = Blank
    /\ settings_view[56] = start_view[1082]

\* C3: the original differs from what it was when the run started only if all
\* six view files were completely written before, each from the buffer read at
\* the start; the view files written stay as written when a later step fails.
C3_OriginalLast ==
    /\ \A k \in Written :
         views[Calls[k].filename] = File(ExpectedView(start_view, Calls[k]))
    /\ settings_view # start_view =>
         /\ Written = 1..Len(Calls)
         /\ lines = start_view

\* a failure among the view writes: some view files written, the original untouched
C3_Witness ==
    /\ pc = "failed"
    /\ run = 1
    /\ next_call = 3
    /\ views["GeneralSettingsView.swift"].exists
    /\ views["TranscriptionSettingsView.swift"].exists
    /\ ~views["CustomProviderSheets.swift"].exists
    /\ settings_view = start_view
    /\ Len(start_view) = 1200

\* C4: a second run on the output of a run over a 1200-line original does not
\* reproduce the view files: each ends with fewer extracted lines than the
\* first run gave it, and the original is changed again.
C4_NotIdempotent ==
    (run = 2 /\ pc = "done" /\ prev_len = 1200) =>
        /\ views # prev_views
        /\ \A k \in 1..Len(Calls) :
             Len(BodyOf(views[Calls[k].filename], Calls[k]))
                 < Len(BodyOf(prev_views[Calls[k].filename], Calls[k]))
        /\ settings_view # start_view

C4_Witness ==
    /\ run = 2
    /\ pc = "done"
    /\ prev_len = 1200
    /\ Len(BodyOf(prev_views["GeneralSettingsView.swift"], Calls[1])) = 146
    /\ Len(BodyOf(views["GeneralSettingsView.swift"], Calls[1])) = 120
    /\ Len(BodyOf(views["CustomProviderSheets.swift"], Calls[6])) = 0
    /\ Len(start_view) = 174
    /\ Len(settings_view) = 55

\* what "lines [0, min(54,n)), a blank line, lines [1081, n)" is as a text:
\* the "\n" written after a head whose last line has no terminator ends that line
ExpectedKeep(t) ==
    LET n == Len(t)
        head == SubSeq(t, 1, Min(54, n))
        tail == SubSeq(t, 1082, n)
    IN IF head # <<>> /\ ~head[Len(head)].nl
       THEN SubSeq(head, 1, Len(head) - 1) \o <<Line(head[Len(head)].text)>> \o tail
       ELSE head \o <<Blank>> \o tail

C8_WitnessEmpty ==
    /\ pc = "done"
    /\ run = 1
    /\ start_view = <<>>
    /\ settings_view = <<Blank>>

\* C10: with n >= 1081 the head [0,54), the six ranges and the tail [1081,n)
\* are contiguous and disjoint: every original line is in exactly one output,
\* and head, the six view bodies in call order and tail concatenated are the
\* original.
C10_Partition ==
    (Ran /\ Len(start_view) >= 1081) =>
        LET n == Len(start_view)
            body(k) == BodyOf(views[Calls[k].filename], Calls[k])
        IN /\ Calls[1].start = KeepHeadEnd
           /\ \A k \in 1..(Len(Calls) - 1) : Calls[k].end = Calls[k + 1].start
           /\ Calls[Len(Calls)].end = KeepTailStart
           /\ \A i \in 0..(n - 1) :
                Cardinality({k \in 1..Len(Calls) : Calls[k].start <= i /\ i < Calls[k].end})
                    + (IF i < KeepHeadEnd THEN 1 ELSE 0)
                    + (IF i >= KeepTailStart THEN 1 ELSE 0) = 1
           /\ SubSeq(settings_view, 1, 54)
                \o body(1) \o body(2) \o body(3) \o body(4) \o body(5) \o body(6)
                \o SubSeq(settings_view, 56, Len(settings_view))
              = start_view

C10_Witness ==
    /\ pc = "done"
    /\ Len(start_view) = 1200
    /\ Len(BodyOf(views["ModelSettingsView.swift"], Calls[3])) = 231
    /\ BodyOf(views["CustomProviderSheets.swift"], Calls[6])[195] = start_view[1081]
    /\ settings_view[56] = start_view[1082]


----------------------------------------------------------------------------
(* generate_icon.py: images *)

MaxRadialDim == 3
MaxLinearDim == 5
MaxScale == 4

\* An Image is its mode, its size <<width, height>> and its pixels in the
\* row-major order of getdata() and putdata(): pixel (x, y) is
\* px[y * width + x + 1].  An "RGB" pixel is <<r, g, b>>, an "L" pixel a number.
\* The images of main() are too large to carry their pixels: there an image
\* is only its mode and size.

\* the mode and size of Image.new(mode, (width, height))
NewInfo(mode, width, height) == [mode |-> mode, size |-> <<width, height>>]

\* what Image.new fills with: an "RGB" image takes r, g, b of a 4-tuple
Ink(mode, color) ==
    IF mode = "L" THEN color ELSE <<color[1], color[2], color[3]>>

NewImage(mode, width, height, color) ==
    [mode |-> NewInfo(mode, width, height).mode,
     size |-> NewInfo(mode, width, height).size,
     px |-> [i \in 1..(width * height) |-> Ink(mode, color)]]

putdata(img, data) ==
    [mode |-> img.mode, size |-> img.size,
     px |-> [i \in 1..(img.size[1] * img.size[2]) |-> data[i]]]

\* Natural numbers too large for a machine word, as little-endian digits in
\* base 10000; BigMul(n, k, carry) is n * k + carry.
RECURSIVE BigMul(_, _, _)
BigMul(n, k, carry) ==
    IF n = <<>>
    THEN IF carry = 0 THEN <<>>
         ELSE <<carry % 10000>> \o BigMul(<<>>, k, carry \div 10000)
    ELSE LET v == n[1] * k + carry
         IN <<v % 10000>> \o BigMul(Tail(n), k, v \div 10000)

\* n * k^e
RECURSIVE BigTimesPow(_, _, _)
BigTimesPow(n, k, e) ==
    IF e = 0 THEN n ELSE BigTimesPow(BigMul(n, k, 0), k, e - 1)

BigLeq(x, y) ==
    IF Len(x) # Len(y) THEN Len(x) < Len(y)
    ELSE LET D == {i \in 1..Len(x) : x[i] # y[i]}
         IN \/ D = {}
            \/ LET top == CHOOSE i \in D : \A j \in D : j <= i
               IN x[top] < y[top]

\* the least j in lo..hi with (a/b)^7 <= (j/255)^20, given lhs = 255^20 * a^7
RECURSIVE LeastLevel(_, _, _, _)
LeastLevel(lhs, b, lo, hi) ==
    IF lo = hi THEN lo
    ELSE LET mid == (lo + hi) \div 2
         IN IF BigLeq(lhs, BigTimesPow(BigTimesPow(<<1>>, mid, 20), b, 7))
            THEN LeastLevel(lhs, b, lo, mid)
            ELSE LeastLevel(lhs, b, mid + 1, hi)

\* int(255 * max(0, 1 - (dist / max_dist) ** 0.7)) for 4 * dist^2 = a and
\* 4 * max_dist^2 = b.  With t = (dist / max_dist) ** 0.7 = (a/b)^(7/20), the
\* result is 255 - j for the least j with t <= j/255, which is decided on
\* whole numbers as 255^20 * a^7 <= j^20 * b^7.
Falloff(a, b) ==
    IF a = 0 THEN 255
    ELSE IF a >= b THEN 0
    ELSE 255 - LeastLevel(BigTimesPow(BigTimesPow(<<1>>, 255, 20), a, 7), b, 1, 255)

\* mask_data of create_radial_gradient, center_offset at its default (0.5, 0.5):
\* cx = width / 2, cy = height / 2, so 4 * dist^2 = (2x - width)^2 + (2y - height)^2
RadialMaskData(width, height) ==
    [i \in 1..(width * height) |->
        LET x == (i - 1) % width
            y == (i - 1) \div width
        IN Falloff((2 * x - width) * (2 * x - width) + (2 * y - height) * (2 * y - height),
                   width * width + height * height)]

\* the mode and size of the image create_radial_gradient returns:
\* result = Image.new('RGB', (width, height))
radial_gradient_info(width, height) == NewInfo("RGB", width, height)

create_radial_gradient(width, height, center_color, edge_color) ==
    LET base == NewImage("RGB", width, height, edge_color)
        mask == putdata(NewImage("L", width, height, 0), RadialMaskData(width, height))
        center_layer == NewImage("RGB", width, height, center_color)
        \* list(zip(channel i of base, channel i of center_layer, mask))
        zipped(i) == [p \in 1..(width * height) |->
                         <<base.px[p][i], center_layer.px[p][i], mask.px[p]>>]
        info == radial_gradient_info(width, height)
        result0 == putdata(NewImage(info.mode, info.size[1], info.size[2], <<0, 0, 0>>),
                           zipped(1))
        result1 == putdata(result0, zipped(2))
        result2 == putdata(result1, zipped(3))
    IN result2

\* the mask modes Image.paste takes
MaskModes == {"1", "L", "LA", "RGBA", "RGBa"}

DIV255(a) == LET tmp == a + 128 IN ((tmp \div 256) + tmp) \div 256

BLEND(mask, in1, in2) == DIV255(in1 * (255 - mask) + in2 * mask)

\* the exception Image.paste raises for its mask, "" for none
paste_error(mask) ==
    IF mask.mode \notin MaskModes THEN "ValueError: bad transparency mask" ELSE ""

\* im.paste(source, box, mask): the image pasted into, or the exception
paste(im, source, box, mask) ==
    IF paste_error(mask) # ""
    THEN [error |-> paste_error(mask), image |-> im]
    ELSE [error |-> "",
          image |->
            [mode |-> im.mode, size |-> im.size,
             px |-> [i \in 1..(im.size[1] * im.size[2]) |->
                LET x == ((i - 1) % im.size[1]) - box[1]
                    y == ((i - 1) \div im.size[1]) - box[2]
                    j == y * source.size[1] + x + 1
                IN IF x \in 0..(source.size[1] - 1) /\ y \in 0..(source.size[2] - 1)
                   THEN LET m == IF mask.mode = "L" THEN mask.px[j]
                                 ELSE mask.px[j][Len(mask.px[j])]
                        IN [c \in 1..3 |-> BLEND(m, im.px[i][c], source.px[j][c])]
                   ELSE im.px[i]]]]

\* LinearMaskData with the two axes exchanged
LinearMaskDataSwapped(width, height, direction) ==
    [i \in 1..(width * height) |->
        IF direction = "vertical"
        THEN (255 * ((i - 1) % width)) \div width
        ELSE (255 * ((i - 1) \div width)) \div height]

\* mask_data of create_linear_gradient: int(255 * factor)
LinearMaskData(width, height, direction) ==
    [i \in 1..(width * height) |->
        LET x == (i - 1) % width
            y == (i - 1) \div width
        IN IF direction = "vertical"
           THEN (255 * y) \div height
           ELSE (255 * x) \div width]

create_linear_gradient(width, height, start_color, end_color, direction) ==
    LET base == NewImage("RGB", width, height, start_color)
        top == NewImage("RGB", width, height, end_color)
        mask == putdata(NewImage("L", width, height, 0),
                        LinearMaskData(width, height, direction))
    IN paste(base, top, <<0, 0>>, mask).image

----------------------------------------------------------------------------
(* generate_icon.py: the microphone *)

\* Coordinates are in twelfths of a pixel and scale is counted in halves
\* (scale = 2 is the Python 1.0), so that every coordinate of the drawing is
\* a whole number.

None == <<>>

\* k * scale pixels
Scaled(k, scale) == 6 * k * scale

\* int(k * scale)
IntScaled(k, scale) == (k * scale) \div 2

ellipse(xy, fill, outline, width) ==
    [shape |-> "ellipse", xy |-> xy, fill |-> fill, outline |-> outline,
     width |-> width, angles |-> None]

rectangle(xy, fill, outline, width) ==
    [shape |-> "rectangle", xy |-> xy, fill |-> fill, outline |-> outline,
     width |-> width, angles |-> None]

line(xy, fill, width) ==
    [shape |-> "line", xy |-> xy, fill |-> fill, outline |-> None,
     width |-> width, angles |-> None]

arc(xy, start, end, fill, width) ==
    [shape |-> "arc", xy |-> xy, fill |-> fill, outline |-> None,
     width |-> width, angles |-> <<start, end>>]

\* the scale argument kept as passed
EffectiveScaleKept(scale) == scale

\* scale = 1.0
EffectiveScale(scale) == 2

\* the draw calls of draw_microphone_shiny below its assignment to scale
MicShapes(center_x, center_y, scale) ==
    LET gold_dark == <<139, 90, 43>>
        gold_medium == <<212, 175, 55>>
        gold_light == <<255, 215, 0>>
        gold_highlight == <<255, 255, 200>>
        body_w == Scaled(220, scale)
        body_h == Scaled(380, scale)
        body_x == 12 * center_x - body_w \div 2
        body_y == 12 * center_y - body_h \div 2 - Scaled(80, scale)
        shadow_offset == Scaled(10, scale)
        grid_color == gold_dark
        stand_w == Scaled(140, scale)
        stand_h == Scaled(120, scale)
        stand_x == 12 * center_x - stand_w \div 2
        stand_y == body_y + body_h
        base_w == Scaled(200, scale)
        base_h == Scaled(30, scale)
        base_x == 12 * center_x - base_w \div 2
        base_y == stand_y + (stand_h * 15) \div 10
    IN << ellipse(<<body_x + shadow_offset, body_y + shadow_offset,
                    body_x + body_w + shadow_offset, body_y + body_h + shadow_offset>>,
                  <<0, 0, 0, 80>>, None, 1),
          ellipse(<<body_x, body_y, body_x + body_w, body_y + (body_h * 25) \div 100>>,
                  gold_light, gold_dark, IntScaled(8, scale)),
          ellipse(<<body_x, body_y + (body_h * 75) \div 100,
                    body_x + body_w, body_y + body_h>>,
                  gold_dark, gold_dark, IntScaled(8, scale)),
          rectangle(<<body_x, body_y + (body_h * 125) \div 1000,
                      body_x + body_w, body_y + (body_h * 875) \div 1000>>,
                    gold_medium, None, 1),
          line(<<body_x + Scaled(20, scale), body_y + Scaled(30, scale),
                 body_x + body_w - Scaled(20, scale), body_y + Scaled(30, scale)>>,
               gold_highlight, IntScaled(6, scale)) >>
       \o [i \in 1..5 |->
             LET y == body_y + (body_h * 2) \div 10 + (((body_h * 55) \div 100) \div 6) * i
             IN line(<<body_x + Scaled(15, scale), y,
                       body_x + body_w - Scaled(15, scale), y>>,
                     grid_color, IntScaled(3, scale))]
       \o [i \in 1..5 |->
             LET x == body_x + (body_w * 15) \div 100 + (((body_w * 7) \div 10) \div 6) * i
             IN line(<<x, body_y + (body_h * 2) \div 10,
                       x, body_y + (body_h * 75) \div 100>>,
                     grid_color, IntScaled(3, scale))]
       \o << arc(<<stand_x - Scaled(20, scale), stand_y,
                   stand_x + stand_w + Scaled(20, scale), stand_y + stand_h * 2>>,
                 0, 180, gold_medium, IntScaled(20, scale)),
             rectangle(<<12 * center_x - Scaled(60, scale), stand_y + (stand_h * 8) \div 10,
                         12 * center_x + Scaled(60, scale), stand_y + (stand_h * 10) \div 10>>,
                       gold_medium, gold_dark, IntScaled(4, scale)),
             ellipse(<<base_x, base_y, base_x + base_w, base_y + base_h>>,
                     gold_dark, gold_medium, IntScaled(4, scale)),
             ellipse(<<base_x + Scaled(20, scale), base_y + Scaled(5, scale),
                       base_x + base_w - Scaled(20, scale),
                       base_y + base_h - Scaled(5, scale)>>,
                     None, gold_light, IntScaled(2, scale)) >>

\* the draw calls draw_microphone_shiny(draw, center_x, center_y, scale) issues on draw
draw_microphone_shiny(center_x, center_y, scale) ==
    MicShapes(center_x, center_y, EffectiveScale(scale))

----------------------------------------------------------------------------
(* generate_icon.py: main *)

\* img.filter(ImageFilter.GaussianBlur(radius)): an image of the same mode and
\* size; the blurred pixel values are not modelled
GaussianBlur(img, radius) == [mode |-> img.mode, size |-> img.size]

\* img.resize(size, LANCZOS): an image of the same mode and the given size;
\* the resampled pixel values are not modelled
resize(img, size) == [mode |-> img.mode, size |-> size]

\* what img.save(name, "PNG") leaves on disk
SavedFile(img, name) == [name |-> name, size |-> img.size]

sizes == <<16, 32, 64, 128, 256, 512>>

\* iterations i, i+1, ..., 4 of the glow loop: the background after them, or
\* the exception that ended the loop
RECURSIVE GlowLoop(_, _, _)
GlowLoop(i, size, background) ==
    IF i >= 5 THEN [error |-> "", background |-> background]
    ELSE LET glow_size == (size * (6 - i)) \div 10
             offset == (size - glow_size) \div 2
             glow == GaussianBlur(radial_gradient_info(glow_size, glow_size), 30)
         IN \* background.paste(glow, (offset, offset), glow)
            IF paste_error(glow) # ""
            THEN [error |-> paste_error(glow), background |-> background]
            ELSE GlowLoop(i + 1, size, background)

\* main(): the exception that ended it, the draw calls on the background and
\* the files saved
main ==
    LET size == 1024
        glowed == GlowLoop(0, size, NewInfo("RGB", size, size))
        background == glowed.background
    IN IF glowed.error # ""
       THEN [error |-> glowed.error, surface |-> <<>>, files |-> <<>>]
       ELSE [error |-> "",
             surface |-> draw_microphone_shiny(size \div 2, size \div 2, 2),
             files |-> <<SavedFile(background, "AppIcon.png")>>
                       \o [k \in 1..Len(sizes) |->
                             SavedFile(resize(background, <<sizes[k], sizes[k]>>),
                                       "AppIcon_" \o ToString(sizes[k]) \o "x"
                                           \o ToString(sizes[k]) \o ".png")]]

----------------------------------------------------------------------------
(* generate_icon.py: the calls *)

CenterColors == {<<255, 200, 80>>, <<0, 0, 0>>}
EdgeColors == {<<255, 180, 50, 0>>, <<20, 15, 10>>}
LinearColors == {<<0, 0, 0>>, <<255, 255, 255>>, <<212, 175, 55>>}
Directions == {"vertical", "horizontal", "diagonal"}
Centers == {0, 300, 512}

CallRadial ==
    /\ ipc = "idle"
    /\ \E width \in 1..MaxRadialDim, height \in 1..MaxRadialDim,
          center_color \in CenterColors, edge_color \in EdgeColors :
         /\ call' = [fn |-> "create_radial_gradient",
                     args |-> <<width, height, center_color, edge_color>>]
         /\ image' = create_radial_gradient(width, height, center_color, edge_color)
    /\ ipc' = "returned"
    /\ UNCHANGED <<surface, files, error>>
    /\ UNCHANGED splitVars

CallLinear ==
    /\ ipc = "idle"
    /\ \E width \in 1..MaxLinearDim, height \in 1..MaxLinearDim,
          start_color \in LinearColors, end_color \in LinearColors,
          direction \in Directions :
         /\ call' = [fn |-> "create_linear_gradient",
                     args |-> <<width, height, start_color, end_color, direction>>]
         /\ image' = create_linear_gradient(width, height, start_color, end_color, direction)
    /\ ipc' = "returned"
    /\ UNCHANGED <<surface, files, error>>
    /\ UNCHANGED splitVars

CallMicrophone ==
    /\ ipc = "idle"
    /\ \E center_x \in Centers, center_y \in Centers, scale \in 1..MaxScale :
         /\ call' = [fn |-> "draw_microphone_shiny", args |-> <<center_x, center_y, scale>>]
         /\ surface' = surface \o draw_microphone_shiny(center_x, center_y, scale)
    /\ ipc' = "returned"
    /\ UNCHANGED <<image, files, error>>
    /\ UNCHANGED splitVars

CallMain ==
    /\ ipc = "idle"
    /\ call' = [fn |-> "main", args |-> <<>>]
    /\ error' = main.error
    /\ surface' = main.surface
    /\ files' = main.files
    /\ ipc' = "returned"
    /\ UNCHANGED image
    /\ UNCHANGED splitVars

\* split.py not started
SplitOff ==
    /\ pc = "off"
    /\ settings_view = <<>>
    /\ lines = <<>>
    /\ views = [f \in Filenames |-> NoFile]
    /\ next_call = 1
    /\ run = 1
    /\ start_view = <<>>
    /\ prev_views = views
    /\ prev_len = 0

InitIcon == IconIdle /\ SplitOff

NextIcon ==
    \/ CallRadial
    \/ CallLinear
    \/ CallMicrophone
    \/ CallMain

SpecIcon == InitIcon /\ [][NextIcon]_vars

----------------------------------------------------------------------------
(* Properties of generate_icon.py *)

Returned(fn) == ipc = "returned" /\ call.fn = fn

C7_LinearGradient ==
    Returned("create_linear_gradient") =>
        LET w == call.args[1]
            h == call.args[2]
            start_color == call.args[3]
            end_color == call.args[4]
            vertical == call.args[5] = "vertical"
            at(x, y) == image.px[y * w + x + 1]
            \* the position along the gradient's axis, and the axis length
            along(x, y) == IF vertical THEN y ELSE x
            length == IF vertical THEN h ELSE w
            blend(m) == [c \in 1..3 |->
                            (start_color[c] * (255 - m) + end_color[c] * m + 127) \div 255]
            toward(c, u, v) ==
                IF start_color[c] <= end_color[c]
                THEN start_color[c] <= u /\ u <= v /\ v <= end_color[c]
                ELSE start_color[c] >= u /\ u >= v /\ v >= end_color[c]
            X == 0..(w - 1)
            Y == 0..(h - 1)
        IN /\ image.size = <<w, h>>
           /\ Len(image.px) = w * h
           /\ \A x \in X, y \in Y :
                at(x, y) = blend((255 * along(x, y)) \div length)
           /\ \A x \in X, y \in Y :
                along(x, y) = 0 => at(x, y) = start_color
           /\ \A x1 \in X, y1 \in Y, x2 \in X, y2 \in Y :
                along(x1, y1) = along(x2, y2) => at(x1, y1) = at(x2, y2)
           /\ \A x1 \in X, y1 \in Y, x2 \in X, y2 \in Y :
                along(x1, y1) <= along(x2, y2) =>
                    \A c \in 1..3 : toward(c, at(x1, y1)[c], at(x2, y2)[c])

C7_Witness ==
    /\ Returned("create_linear_gradient")
    /\ call.args = <<2, 5, <<212, 175, 55>>, <<0, 0, 0>>, "vertical">>
    /\ image.px[1] = <<212, 175, 55>>
    /\ image.px[3] = <<170, 140, 44>>
    /\ image.px[9] = <<42, 35, 11>>
    /\ image.px[10] = <<42, 35, 11>>

\* C9: the scale argument of draw_microphone_shiny is inert: for the same
\* center, every scale gives the draw calls of scale 1.0 (2 halves).
C9_ScaleInert ==
    Returned("draw_microphone_shiny") =>
        LET center_x == call.args[1]
            center_y == call.args[2]
        IN /\ surface = MicShapes(center_x, center_y, 2)
           /\ \A scale \in 1..MaxScale :
                draw_microphone_shiny(center_x, center_y, scale) = surface

\* a call with scale 2.0 whose first shape is the shadow of the body drawn at scale 1.0
C9_Witness ==
    /\ Returned("draw_microphone_shiny")
    /\ call.args = <<512, 512, 4>>
    /\ Len(surface) = 19
    /\ surface[1].shape = "ellipse"
    /\ surface[1].xy = <<12 * 412, 12 * 252, 12 * 632, 12 * 632>>
    /\ surface[2].width = 8

============================================================================
